---- MODULE Spec2Model ----
(***************************************************************************)
(* Model of uptime-history (src/main.go): the pipeline                     *)
(*   journalctl --list-boots  ->  boot / shutdown events                   *)
(*   journalctl -u systemd-suspend / systemd-hibernate -> unit events      *)
(*   sort.Slice + deduplicateEvents -> normalized event stream             *)
(*   calculateSessions -> sessions -> displaySessions / displaySummary     *)
(* Instants are whole minutes: time.Minute is 1, so the one-minute         *)
(* "current boot" test and the two-minute dedup window keep their exact    *)
(* boundaries.                                                             *)
(***************************************************************************)
EXTENDS Integers, Sequences, FiniteSets, TLC

VARIABLES
    pc,            \* position of main / getSystemEvents / calculateSessions
    now,           \* the wall clock as last read by time.Now()
    queries,       \* the journalctl commands issued so far, with their outcome
    startTime,     \* getSystemEvents: startTime of the row parsed last
    endTime,       \* getSystemEvents: endTime of the row parsed last
    events,        \* getSystemEvents: events, then main: events
    sorted,        \* events as sort.Slice left them (input of deduplicateEvents)
    i,             \* calculateSessions: loop index (1-based)
    sessionStart,  \* calculateSessions: <<>> for nil, <<e>> for &e
    sessionType,   \* calculateSessions: sessionType
    sessions,      \* calculateSessions: sessions, then main: sessions
    output,        \* what main has printed, in order
    exitCode,      \* -1 while running, 0 after return from main, 1 after os.Exit(1)
    summary,       \* displaySummary: <<>> until it runs, then <<its locals>>
    d,             \* formatDuration: the argument, in whole seconds
    rendered       \* formatDuration: the string returned

vars == <<pc, now, queries, startTime, endTime, events, sorted, i,
          sessionStart, sessionType, sessions, output, exitCode,
          summary, d, rendered>>

----------------------------------------------------------------------------
(* Bounds *)

MaxTime == 2          \* instants are 0..MaxTime
MaxEvents == 3        \* events extracted in one run

MaxHours == 10        \* formatDuration is tried on up to MaxHours:59:59
Time == 0..MaxTime

----------------------------------------------------------------------------
(* Program constants and vocabulary *)

OneMinute == 1        \* time.Minute, main.go:120
TwoMinutes == 2       \* 2*time.Minute, main.go:269

Openers == {"boot", "resume"}
Closers == {"shutdown", "suspend", "hibernate"}
Kinds == Openers \cup Closers

Event(t, k) == [Timestamp |-> t, Type |-> k]

StillActive == "(still active)"

Label(from, to) == from \o " → " \o to

Session(start, end, type) ==
    [Start |-> start, End |-> end, Duration |-> end - start, Type |-> type]

Before(a, b) == a < b

----------------------------------------------------------------------------
(* time.Now(): the clock never runs backwards between two reads *)

ClockReads == {t \in Time : t >= now /\ t <= now + 1}

----------------------------------------------------------------------------
(* sort.Slice(events, less) with less = Timestamp.Before: some permutation *)
(* of the input in which no later element is Before an earlier one; the    *)
(* order of elements with equal timestamps is not specified.               *)

RemoveAt(s, k) == SubSeq(s, 1, k - 1) \o SubSeq(s, k + 1, Len(s))

\* the comparator reversed: latest first
RECURSIVE SortSlice_Descending(_)
SortSlice_Descending(s) ==
    IF s = <<>> THEN {<<>>}
    ELSE UNION { { <<s[k]>> \o r : r \in SortSlice_Descending(RemoveAt(s, k)) } :
                 k \in { k \in DOMAIN s :
                         \A j \in DOMAIN s :
                            ~Before(s[k].Timestamp, s[j].Timestamp) } }

\* the sort left out: the events stay in extraction order
SortSlice_Unsorted(s) == {s}

RECURSIVE SortSlice(_)
SortSlice(s) ==
    IF s = <<>> THEN {<<>>}
    ELSE UNION { { <<s[k]>> \o r : r \in SortSlice(RemoveAt(s, k)) } :
                 k \in { k \in DOMAIN s :
                         \A j \in DOMAIN s :
                            ~Before(s[j].Timestamp, s[k].Timestamp) } }

----------------------------------------------------------------------------
(* deduplicateEvents *)

\* the comparison made against the previous input event, not the last
\* retained one
RECURSIVE DedupLoop_PrevInput(_, _, _)
DedupLoop_PrevInput(evs, k, result) ==
    IF k > Len(evs) THEN result
    ELSE LET lastEvent == evs[k - 1]
             currentEvent == evs[k]
         IN IF currentEvent.Type = lastEvent.Type
               /\ currentEvent.Timestamp - lastEvent.Timestamp < TwoMinutes
            THEN DedupLoop_PrevInput(evs, k + 1, result)
            ELSE DedupLoop_PrevInput(evs, k + 1, Append(result, currentEvent))

\* a retained event put in front of the result instead of behind it
RECURSIVE DedupLoop_Prepends(_, _, _)
DedupLoop_Prepends(evs, k, result) ==
    IF k > Len(evs) THEN result
    ELSE LET lastEvent == result[Len(result)]
             currentEvent == evs[k]
         IN IF currentEvent.Type = lastEvent.Type
               /\ currentEvent.Timestamp - lastEvent.Timestamp < TwoMinutes
            THEN DedupLoop_Prepends(evs, k + 1, result)
            ELSE DedupLoop_Prepends(evs, k + 1, <<currentEvent>> \o result)

RECURSIVE DedupLoop(_, _, _)
DedupLoop(evs, k, result) ==
    IF k > Len(evs) THEN result
    ELSE LET lastEvent == result[Len(result)]
             currentEvent == evs[k]
         IN IF currentEvent.Type = lastEvent.Type
               /\ currentEvent.Timestamp - lastEvent.Timestamp < TwoMinutes
            THEN DedupLoop(evs, k + 1, result)
            ELSE DedupLoop(evs, k + 1, Append(result, currentEvent))

deduplicateEvents(evs) ==
    IF Len(evs) = 0 THEN evs
    ELSE DedupLoop(evs, 2, <<evs[1]>>)

----------------------------------------------------------------------------
(* detectSuspendResume: one log line of a unit to its events.  A line is   *)
(* what the parser looks at: whether it contains the unit phrase, its      *)
(* leading timestamp (NoTs when the regexp or time.Parse fails), and       *)
(* whether it contains "Starting ..." / "Finished ...".                    *)

NoTs == -1

UnitLines ==
    { l \in [ts : Time \cup {NoTs}, phrase : BOOLEAN,
             starting : BOOLEAN, finished : BOOLEAN] :
        (l.starting \/ l.finished) => l.phrase }

UnitEventType(l, startKind) ==
    IF l.finished THEN "resume"
    ELSE IF l.starting THEN startKind
    ELSE ""

ParseUnitLine(l, startKind) ==
    IF ~l.phrase THEN <<>>
    ELSE IF l.ts = NoTs THEN <<>>
    ELSE IF UnitEventType(l, startKind) = "" THEN <<>>
    ELSE <<Event(l.ts, UnitEventType(l, startKind))>>

\* a journalctl invocation and whether err == nil && len(output) > 0
Query(cmd, ok) == [cmd |-> cmd, ok |-> ok]

----------------------------------------------------------------------------
(* journalctl --list-boots: one line after the header.  A line is either   *)
(* malformed (fewer than three parts, fewer than two dates, or a date that *)
(* time.Parse rejects) or carries its two parsed instants.                 *)

BootLines ==
    [ok : {FALSE}, first : {0}, last : {0}]
    \cup [ok : {TRUE}, first : Time, last : Time]

\* the test written as "not after": a row that ended exactly one minute
\* ago gets a shutdown
BootRowEvents_NotAfter(first, last, t) ==
    <<Event(first, "boot")>> \o
    (IF last <= t - OneMinute
     THEN <<Event(last, "shutdown")>> ELSE <<>>)

BootRowEvents(first, last, t) ==
    <<Event(first, "boot")>> \o
    (IF Before(last, t - OneMinute)
     THEN <<Event(last, "shutdown")>> ELSE <<>>)

----------------------------------------------------------------------------
(* formatDuration.  Its argument is a duration in whole seconds;           *)
(* int(d.Hours()), int(d.Minutes()) and int(d.Seconds()) truncate toward   *)
(* zero and Go's % takes the sign of the dividend.                         *)

SecondsPerMinute == 60     \* d.Minutes(), and the % 60 of main.go:409
MinutesPerHour == 60       \* the % 60 of main.go:408
SecondsPerHour == 3600     \* d.Hours()

TruncDiv(a, b) == IF a >= 0 THEN a \div b ELSE -((-a) \div b)
GoRem(a, b) == a - b * TruncDiv(a, b)

\* the seconds taken modulo the hour instead of the minute
formatDuration_SecondsOfHour(dur) ==
    LET hours == TruncDiv(dur, SecondsPerHour)
        minutes == GoRem(TruncDiv(dur, SecondsPerMinute), MinutesPerHour)
        seconds == GoRem(dur, SecondsPerHour)
    IN IF hours > 0
       THEN ToString(hours) \o "h " \o ToString(minutes) \o "m "
               \o ToString(seconds) \o "s"
       ELSE IF minutes > 0
       THEN ToString(minutes) \o "m " \o ToString(seconds) \o "s"
       ELSE ToString(seconds) \o "s"

formatDuration(dur) ==
    LET hours == TruncDiv(dur, SecondsPerHour)
        minutes == GoRem(TruncDiv(dur, SecondsPerMinute), MinutesPerHour)
        seconds == GoRem(dur, SecondsPerMinute)
    IN IF hours > 0
       THEN ToString(hours) \o "h " \o ToString(minutes) \o "m "
               \o ToString(seconds) \o "s"
       ELSE IF minutes > 0
       THEN ToString(minutes) \o "m " \o ToString(seconds) \o "s"
       ELSE ToString(seconds) \o "s"

\* a Duration of the pipeline (whole minutes) as formatDuration sees it
Seconds(dur) == dur * SecondsPerMinute

----------------------------------------------------------------------------
(* displaySessions, displaySummary *)

displaySessions(ss) ==
    <<"Computer work sessions:">> \o
    [k \in DOMAIN ss |->
        ToString(ss[k].Start) \o " | " \o ToString(ss[k].End) \o " | "
           \o formatDuration(Seconds(ss[k].Duration)) \o " | " \o ss[k].Type]

RECURSIVE TotalLoop(_, _, _)
TotalLoop(ss, k, totalDuration) ==
    IF k > Len(ss) THEN totalDuration
    ELSE TotalLoop(ss, k + 1, totalDuration + ss[k].Duration)

\* the scan replacing the candidate on a tie: the last occurrence wins
RECURSIVE LongestLoop_LastWins(_, _, _)
LongestLoop_LastWins(ss, k, longest) ==
    IF k > Len(ss) THEN longest
    ELSE LongestLoop_LastWins(ss, k + 1,
            IF ss[k].Duration >= longest.Duration THEN ss[k] ELSE longest)

RECURSIVE LongestLoop(_, _, _)
LongestLoop(ss, k, longest) ==
    IF k > Len(ss) THEN longest
    ELSE LongestLoop(ss, k + 1,
            IF ss[k].Duration > longest.Duration THEN ss[k] ELSE longest)

RECURSIVE ShortestLoop(_, _, _)
ShortestLoop(ss, k, shortest) ==
    IF k > Len(ss) THEN shortest
    ELSE ShortestLoop(ss, k + 1,
            IF ss[k].Duration < shortest.Duration THEN ss[k] ELSE shortest)

\* the locals of displaySummary; <<>> when it returns at once
displaySummary(ss) ==
    IF Len(ss) = 0 THEN <<>>
    ELSE LET totalDuration == TotalLoop(ss, 1, 0) IN
         <<[count |-> Len(ss),
            totalDuration |-> totalDuration,
            avgDuration |-> TruncDiv(totalDuration, Len(ss)),
            longest |-> LongestLoop(ss, 2, ss[1]),
            shortest |-> ShortestLoop(ss, 2, ss[1])]>>

SummaryLines(sm) ==
    IF sm = <<>> THEN <<>>
    ELSE <<"=== Summary ===",
           "Number of sessions: " \o ToString(sm[1].count),
           "Total uptime: " \o formatDuration(Seconds(sm[1].totalDuration)),
           "Average session time: "
              \o formatDuration(Seconds(sm[1].avgDuration)),
           "Longest session: "
              \o formatDuration(Seconds(sm[1].longest.Duration))
              \o " (" \o ToString(sm[1].longest.Start) \o ")",
           "Shortest session: "
              \o formatDuration(Seconds(sm[1].shortest.Duration))
              \o " (" \o ToString(sm[1].shortest.Start) \o ")">>

----------------------------------------------------------------------------
Init ==
    /\ pc = "main"
    /\ now \in Time
    /\ queries = <<>>
    /\ startTime = 0
    /\ endTime = 0
    /\ events = <<>>
    /\ sorted = <<>>
    /\ i = 0
    /\ sessionStart = <<>>
    /\ sessionType = ""
    /\ sessions = <<>>
    /\ output = <<>>
    /\ exitCode = -1
    /\ summary = <<>>
    /\ d = 0
    /\ rendered = ""

----------------------------------------------------------------------------
(* main, getSystemEvents, detectSuspendResume *)

\* the error of the boot list ignored: the run goes on with no rows
BootListFails_Ignored ==
    /\ pc = "main"
    /\ queries' = Append(queries, Query("list-boots", FALSE))
    /\ output' = Append(output, "header")
    /\ pc' = "suspend_skipped"
    /\ UNCHANGED <<now, startTime, endTime, events, sorted, i, sessionStart,
                   sessionType, sessions, exitCode,
                   summary, d, rendered>>

\* journalctl --list-boots fails: getSystemEvents returns (nil, err),
\* main prints the error and exits 1
BootListFails ==
    /\ pc = "main"
    /\ queries' = Append(queries, Query("list-boots", FALSE))
    /\ events' = <<>>
    /\ output' = output \o <<"header", "error">>
    /\ exitCode' = 1
    /\ pc' = "exit"
    /\ UNCHANGED <<now, startTime, endTime, sorted, i, sessionStart,
                   sessionType, sessions,
                   summary, d, rendered>>

BootListOk ==
    /\ pc = "main"
    /\ queries' = Append(queries, Query("list-boots", TRUE))
    /\ output' = Append(output, "header")
    /\ pc' = "scan"
    /\ UNCHANGED <<now, startTime, endTime, events, sorted, i, sessionStart,
                   sessionType, sessions, exitCode,
                   summary, d, rendered>>

\* one iteration of the bootScanner loop
ScanBootLine ==
    /\ pc = "scan"
    /\ \E line \in BootLines :
          IF line.ok
          THEN \E t \in ClockReads :
                  /\ now' = t
                  /\ startTime' = line.first
                  /\ endTime' = line.last
                  /\ events' = events \o BootRowEvents(line.first, line.last, t)
                  /\ Len(events') <= MaxEvents
          ELSE UNCHANGED <<now, startTime, endTime, events>>
    /\ UNCHANGED <<pc, queries, sorted, i, sessionStart, sessionType,
                   sessions, output, exitCode,
                   summary, d, rendered>>

\* detectSuspendResume returning at the first failed query: the hibernate
\* query is never issued
SuspendQuery_EarlyReturn ==
    /\ pc = "scan"
    /\ \E ok \in BOOLEAN :
          /\ queries' = Append(queries, Query("suspend", ok))
          /\ pc' = IF ok THEN "suspend" ELSE "hibernate_skipped"
    /\ startTime' = 0
    /\ endTime' = 0
    /\ UNCHANGED <<now, events, sorted, i, sessionStart,
                   sessionType, sessions, output, exitCode,
                   summary, d, rendered>>

\* the boot list is exhausted; detectSuspendResume issues the suspend query
SuspendQuery ==
    /\ pc = "scan"
    /\ \E ok \in BOOLEAN :
          /\ queries' = Append(queries, Query("suspend", ok))
          /\ pc' = IF ok THEN "suspend" ELSE "suspend_skipped"
    /\ startTime' = 0
    /\ endTime' = 0
    /\ UNCHANGED <<now, events, sorted, i, sessionStart,
                   sessionType, sessions, output, exitCode,
                   summary, d, rendered>>

\* one iteration of the scanner loop over the suspend unit's lines
ScanSuspendLine ==
    /\ pc = "suspend"
    /\ \E l \in UnitLines :
          /\ events' = events \o ParseUnitLine(l, "suspend")
          /\ Len(events') <= MaxEvents
    /\ UNCHANGED <<pc, now, queries, startTime, endTime, sorted, i,
                   sessionStart, sessionType, sessions, output, exitCode,
                   summary, d, rendered>>

HibernateQuery ==
    /\ pc \in {"suspend", "suspend_skipped"}
    /\ \E ok \in BOOLEAN :
          /\ queries' = Append(queries, Query("hibernate", ok))
          /\ pc' = IF ok THEN "hibernate" ELSE "hibernate_skipped"
    /\ UNCHANGED <<now, startTime, endTime, events, sorted, i, sessionStart,
                   sessionType, sessions, output, exitCode,
                   summary, d, rendered>>

\* one iteration of the scanner loop over the hibernate unit's lines
ScanHibernateLine ==
    /\ pc = "hibernate"
    /\ \E l \in UnitLines :
          /\ events' = events \o ParseUnitLine(l, "hibernate")
          /\ Len(events') <= MaxEvents
    /\ UNCHANGED <<pc, now, queries, startTime, endTime, sorted, i,
                   sessionStart, sessionType, sessions, output, exitCode,
                   summary, d, rendered>>

SortEvents ==
    /\ pc \in {"hibernate", "hibernate_skipped"}
    /\ \E s \in SortSlice(events) :
          /\ events' = s
          /\ sorted' = s
    /\ pc' = "dedup"
    /\ UNCHANGED <<now, queries, startTime, endTime, i, sessionStart,
                   sessionType, sessions, output, exitCode,
                   summary, d, rendered>>

\* events = deduplicateEvents(events); return events, nil
Deduplicate ==
    /\ pc = "dedup"
    /\ events' = deduplicateEvents(events)
    /\ pc' = "returned"
    /\ UNCHANGED <<now, queries, startTime, endTime, sorted, i, sessionStart,
                   sessionType, sessions, output, exitCode,
                   summary, d, rendered>>

\* the empty-list test left out: calculateSessions runs on no events
MainCheckEvents_NoShortCircuit ==
    /\ pc = "returned"
    /\ output' = output
    /\ exitCode' = exitCode
    /\ pc' = "calc"
    /\ i' = 1
    /\ sorted' = <<>>
    /\ UNCHANGED <<now, queries, startTime, endTime, events, sessionStart,
                   sessionType, sessions,
                   summary, d, rendered>>

\* main: if len(events) == 0 { ... return }; sessions := calculateSessions(events)
MainCheckEvents ==
    /\ pc = "returned"
    /\ IF Len(events) = 0
       THEN /\ output' = Append(output, "No system events found.")
            /\ exitCode' = 0
            /\ pc' = "exit"
            /\ i' = i
       ELSE /\ output' = output
            /\ exitCode' = exitCode
            /\ pc' = "calc"
            /\ i' = 1
    /\ sorted' = <<>>
    /\ UNCHANGED <<now, queries, startTime, endTime, events, sessionStart,
                   sessionType, sessions,
                   summary, d, rendered>>

----------------------------------------------------------------------------
(* calculateSessions: one loop iteration per step *)

\* the anomaly branch left out: the open session is overwritten silently
ProcessOpener_DropsOpen ==
    /\ pc = "calc"
    /\ i <= Len(events)
    /\ events[i].Type \in Openers
    /\ sessions' = sessions
    /\ sessionStart' = <<events[i]>>
    /\ sessionType' = events[i].Type
    /\ i' = i + 1
    /\ UNCHANGED <<pc, now, queries, startTime, endTime, events, sorted,
                   output, exitCode,
                   summary, d, rendered>>

\* the improperly terminated session labelled like the open tail
ProcessOpener_TailLabel ==
    /\ pc = "calc"
    /\ i <= Len(events)
    /\ events[i].Type \in Openers
    /\ LET event == events[i] IN
          /\ sessions' =
                IF sessionStart # <<>>
                THEN Append(sessions,
                        Session(sessionStart[1].Timestamp, event.Timestamp,
                                Label(sessionType, StillActive)))
                ELSE sessions
          /\ sessionStart' = <<event>>
          /\ sessionType' = event.Type
    /\ i' = i + 1
    /\ UNCHANGED <<pc, now, queries, startTime, endTime, events, sorted,
                   output, exitCode,
                   summary, d, rendered>>

\* the anomaly session emitted, the new opener discarded
ProcessOpener_NoReopen ==
    /\ pc = "calc"
    /\ i <= Len(events)
    /\ events[i].Type \in Openers
    /\ LET event == events[i] IN
          IF sessionStart # <<>>
          THEN /\ sessions' = Append(sessions,
                        Session(sessionStart[1].Timestamp, event.Timestamp,
                                Label(sessionType, event.Type)))
               /\ UNCHANGED <<sessionStart, sessionType>>
          ELSE /\ sessions' = sessions
               /\ sessionStart' = <<event>>
               /\ sessionType' = event.Type
    /\ i' = i + 1
    /\ UNCHANGED <<pc, now, queries, startTime, endTime, events, sorted,
                   output, exitCode,
                   summary, d, rendered>>

ProcessOpener ==
    /\ pc = "calc"
    /\ i <= Len(events)
    /\ events[i].Type \in Openers
    /\ LET event == events[i] IN
          /\ sessions' =
                IF sessionStart # <<>>
                THEN Append(sessions,
                        Session(sessionStart[1].Timestamp, event.Timestamp,
                                Label(sessionType, event.Type)))
                ELSE sessions
          /\ sessionStart' = <<event>>
          /\ sessionType' = IF event.Type = "boot" THEN "boot" ELSE "resume"
    /\ i' = i + 1
    /\ UNCHANGED <<pc, now, queries, startTime, endTime, events, sorted,
                   output, exitCode,
                   summary, d, rendered>>

\* a closer with nothing open emitting a zero-length session of its own
ProcessCloser_EmitsWhenClosed ==
    /\ pc = "calc"
    /\ i <= Len(events)
    /\ events[i].Type \in Closers
    /\ LET event == events[i] IN
          IF sessionStart # <<>>
          THEN /\ sessions' = Append(sessions,
                        Session(sessionStart[1].Timestamp, event.Timestamp,
                                Label(sessionType, event.Type)))
               /\ sessionStart' = <<>>
               /\ sessionType' = ""
          ELSE /\ sessions' = Append(sessions,
                        Session(event.Timestamp, event.Timestamp,
                                Label(sessionType, event.Type)))
               /\ UNCHANGED <<sessionStart, sessionType>>
    /\ i' = i + 1
    /\ UNCHANGED <<pc, now, queries, startTime, endTime, events, sorted,
                   output, exitCode,
                   summary, d, rendered>>

\* the session emitted but the machine left open
ProcessCloser_StaysOpen ==
    /\ pc = "calc"
    /\ i <= Len(events)
    /\ events[i].Type \in Closers
    /\ LET event == events[i] IN
          IF sessionStart # <<>>
          THEN /\ sessions' = Append(sessions,
                        Session(sessionStart[1].Timestamp, event.Timestamp,
                                Label(sessionType, event.Type)))
               /\ UNCHANGED <<sessionStart, sessionType>>
          ELSE UNCHANGED <<sessions, sessionStart, sessionType>>
    /\ i' = i + 1
    /\ UNCHANGED <<pc, now, queries, startTime, endTime, events, sorted,
                   output, exitCode,
                   summary, d, rendered>>

ProcessCloser ==
    /\ pc = "calc"
    /\ i <= Len(events)
    /\ events[i].Type \in Closers
    /\ LET event == events[i] IN
          IF sessionStart # <<>>
          THEN /\ sessions' = Append(sessions,
                        Session(sessionStart[1].Timestamp, event.Timestamp,
                                Label(sessionType, event.Type)))
               /\ sessionStart' = <<>>
               /\ sessionType' = ""
          ELSE UNCHANGED <<sessions, sessionStart, sessionType>>
    /\ i' = i + 1
    /\ UNCHANGED <<pc, now, queries, startTime, endTime, events, sorted,
                   output, exitCode,
                   summary, d, rendered>>

\* the open tail closed at the last logged event instead of now
StillActiveTail_LastEvent(t) ==
    IF sessionStart # <<>>
    THEN <<Session(sessionStart[1].Timestamp, events[Len(events)].Timestamp,
                   Label(sessionType, StillActive))>>
    ELSE <<>>

\* the tail of calculateSessions after the loop
StillActiveTail(t) ==
    IF sessionStart # <<>>
    THEN <<Session(sessionStart[1].Timestamp, t,
                   Label(sessionType, StillActive))>>
    ELSE <<>>

\* loop exhausted: the still-active tail, return, and main's report
FinishSessions ==
    /\ pc = "calc"
    /\ i > Len(events)
    /\ \E t \in (IF sessionStart # <<>> THEN ClockReads ELSE {now}) :
          /\ now' = t
          /\ sessions' = sessions \o StillActiveTail(t)
    /\ IF Len(sessions') = 0
       THEN /\ output' = Append(output, "Cannot calculate work sessions.")
            /\ summary' = summary
       ELSE /\ summary' = displaySummary(sessions')
            /\ output' = output \o displaySessions(sessions')
                                \o SummaryLines(summary')
    /\ exitCode' = 0
    /\ pc' = "exit"
    /\ UNCHANGED <<queries, startTime, endTime, events, sorted, i,
                   sessionStart, sessionType,
                   d, rendered>>

----------------------------------------------------------------------------
(* calculateSessions as a function of its argument and of the now read for *)
(* the tail: the loop of ProcessOpener / ProcessCloser run to its end.     *)

RECURSIVE SessionsLoop(_, _, _, _, _)
SessionsLoop(evs, k, start, type, acc) ==
    IF k > Len(evs) THEN [sessions |-> acc, sessionStart |-> start,
                          sessionType |-> type]
    ELSE LET event == evs[k] IN
         IF event.Type \in Openers
         THEN SessionsLoop(evs, k + 1, <<event>>,
                 IF event.Type = "boot" THEN "boot" ELSE "resume",
                 IF start # <<>>
                 THEN Append(acc, Session(start[1].Timestamp, event.Timestamp,
                                          Label(type, event.Type)))
                 ELSE acc)
         ELSE IF start # <<>>
         THEN SessionsLoop(evs, k + 1, <<>>, "",
                 Append(acc, Session(start[1].Timestamp, event.Timestamp,
                                     Label(type, event.Type))))
         ELSE SessionsLoop(evs, k + 1, start, type, acc)

calculateSessions(evs, t) ==
    LET end == SessionsLoop(evs, 1, <<>>, "", <<>>) IN
       IF end.sessionStart # <<>>
       THEN Append(end.sessions,
                   Session(end.sessionStart[1].Timestamp, t,
                           Label(end.sessionType, StillActive)))
       ELSE end.sessions

----------------------------------------------------------------------------
Next ==
    \/ BootListFails
    \/ BootListOk
    \/ ScanBootLine
    \/ SuspendQuery
    \/ ScanSuspendLine
    \/ HibernateQuery
    \/ ScanHibernateLine
    \/ SortEvents
    \/ Deduplicate
    \/ MainCheckEvents
    \/ ProcessOpener
    \/ ProcessCloser
    \/ FinishSessions

Spec == Init /\ [][Next]_vars

----------------------------------------------------------------------------
(* formatDuration on its own: one call on a duration of whole seconds,     *)
(* negative ones included.                                                 *)

DurationInputs ==
    { sign * (h * SecondsPerHour + m * SecondsPerMinute + sec) :
        h \in 0..MaxHours,
        m \in 0..(MinutesPerHour - 1),
        sec \in 0..(SecondsPerMinute - 1),
        sign \in {1, -1} }

FormatInit ==
    /\ pc = "formatDuration"
    /\ d \in DurationInputs
    /\ rendered = ""
    /\ now = 0
    /\ queries = <<>>
    /\ startTime = 0
    /\ endTime = 0
    /\ events = <<>>
    /\ sorted = <<>>
    /\ i = 0
    /\ sessionStart = <<>>
    /\ sessionType = ""
    /\ sessions = <<>>
    /\ output = <<>>
    /\ exitCode = -1
    /\ summary = <<>>

FormatDuration ==
    /\ pc = "formatDuration"
    /\ rendered' = formatDuration(d)
    /\ pc' = "formatted"
    /\ UNCHANGED <<now, queries, startTime, endTime, events, sorted, i,
                   sessionStart, sessionType, sessions, output, exitCode,
                   summary, d>>

FormatNext == FormatDuration

SpecFormat == FormatInit /\ [][FormatNext]_vars

----------------------------------------------------------------------------
(* Vocabulary of the properties *)

IsOpener(e) == e.Type \in Openers
IsCloser(e) == e.Type \in Closers

\* calculateSessions has been entered with the normalized stream
Reconstructing == pc = "calc"
\* calculateSessions has returned and main has reported
Reconstructed == pc = "exit" /\ exitCode = 0 /\ Len(events) > 0
\* getSystemEvents has handed its event list to main
Normalized == pc \in {"returned", "calc"} \/ (pc = "exit" /\ exitCode = 0)

\* the part of the stream the reconstruction loop has consumed
Consumed ==
    IF Reconstructing THEN SubSeq(events, 1, i - 1)
    ELSE IF Reconstructed THEN events
    ELSE <<>>

IsStillActive(s) == s.Type \in { Label(o, StillActive) : o \in Openers }

Timestamps(evs) == { evs[k].Timestamp : k \in DOMAIN evs }

IsSortedByTimestamp(evs) ==
    \A k \in 1..(Len(evs) - 1) : evs[k].Timestamp <= evs[k + 1].Timestamp

----------------------------------------------------------------------------
(* C1: for every produced session, end >= start and Duration >= 0, the     *)
(* still-active tail (end = now) included.                                 *)
C1_NonNegativeDuration ==
    \A k \in DOMAIN sessions :
        /\ sessions[k].End >= sessions[k].Start
        /\ sessions[k].Duration >= 0

----------------------------------------------------------------------------
(* C2: session coverage.  Every boot/resume event the loop has consumed is *)
(* the start of exactly one session: the k-th opener starts the k-th       *)
(* session (emitted already, or still open as the machine's sessionStart), *)
(* so on return the number of sessions equals the number of openers.       *)
OpenersOf(evs) == SelectSeq(evs, IsOpener)

\* the session starts accounted for so far: emitted ones, then the open one
StartedBy ==
    [k \in DOMAIN sessions |->
        [Timestamp |-> sessions[k].Start,
         Type |-> CHOOSE o \in Openers :
                     sessions[k].Type \in
                        { Label(o, x) : x \in Kinds \cup {StillActive} }]]
    \o (IF Reconstructing THEN sessionStart ELSE <<>>)

C2_SessionCoverage ==
    /\ (Reconstructing \/ Reconstructed) => StartedBy = OpenersOf(Consumed)
    /\ Reconstructed => Len(sessions) = Len(OpenersOf(events))

\* two openers in a row and a closed pair: an anomaly session, a paired one
C2_Witness ==
    /\ Reconstructed
    /\ Len(events) = 3
    /\ Len(OpenersOf(events)) = 2
    /\ IsOpener(events[1]) /\ IsOpener(events[2]) /\ IsCloser(events[3])
    /\ Len(sessions) = 2

----------------------------------------------------------------------------
(* C3: single open tail.  At most one session carries the "(still active)" *)
(* label, only as the last element of the returned list, never while the   *)
(* loop is still running; the machine holds at most one open session.      *)
C3_SingleOpenTail ==
    /\ \A k \in DOMAIN sessions :
          IsStillActive(sessions[k]) => (k = Len(sessions) /\ Reconstructed)
    /\ Cardinality({ k \in DOMAIN sessions : IsStillActive(sessions[k]) }) <= 1
    /\ Len(sessionStart) <= 1

C3_Witness ==
    /\ Reconstructed
    /\ Len(sessions) >= 2
    /\ IsStillActive(sessions[Len(sessions)])

----------------------------------------------------------------------------
(* C4: chronological invariant.  The event list getSystemEvents returns is *)
(* non-decreasing by timestamp, whatever order the extractor emitted.      *)
C4_Chronological == Normalized => IsSortedByTimestamp(events)

\* boot rows are extracted before unit lines, so a suspend placed ahead of
\* a later boot was moved by the sort
C4_Witness ==
    /\ pc = "returned"
    /\ \E j \in DOMAIN events, k \in DOMAIN events :
          /\ j < k
          /\ events[j].Type = "suspend"
          /\ events[k].Type = "boot"
          /\ events[j].Timestamp < events[k].Timestamp

----------------------------------------------------------------------------
(* C5: idempotent normalizer.  Sorting the returned list again (ties in    *)
(* any order) and deduplicating it again yields the returned list.         *)
C5_IdempotentNormalizer ==
    pc = "returned" =>
        \A s \in SortSlice(events) : deduplicateEvents(s) = events

----------------------------------------------------------------------------
(* C6: dedup rule.  The first event is retained; an event is dropped       *)
(* exactly when its kind equals the kind of the last retained event before *)
(* it and it lies less than two minutes from that retained event; every    *)
(* other event is retained.                                                *)
Dist(a, b) == IF a >= b THEN a - b ELSE b - a

RetainedFlags(evs) ==
    LET keep[k \in DOMAIN evs] ==
            IF k = 1 THEN TRUE
            ELSE LET prev == { m \in 1..(k - 1) : keep[m] }
                     j == CHOOSE m \in prev : \A n \in prev : n <= m
                 IN ~(/\ evs[k].Type = evs[j].Type
                      /\ Dist(evs[k].Timestamp, evs[j].Timestamp) < TwoMinutes)
    IN keep

RECURSIVE KeepFlagged(_, _, _)
KeepFlagged(evs, keep, k) ==
    IF k > Len(evs) THEN <<>>
    ELSE (IF keep[k] THEN <<evs[k]>> ELSE <<>>) \o KeepFlagged(evs, keep, k + 1)

C6_DedupRule ==
    pc = "returned" => events = KeepFlagged(sorted, RetainedFlags(sorted), 1)

\* three events of one kind one minute apart: the second is dropped, the
\* third is two minutes from the retained first and stays
C6_Witness ==
    /\ pc = "returned"
    /\ Len(sorted) = 3
    /\ sorted[1].Type = sorted[2].Type /\ sorted[2].Type = sorted[3].Type
    /\ sorted[2].Timestamp = sorted[1].Timestamp + 1
    /\ sorted[3].Timestamp = sorted[2].Timestamp + 1
    /\ events = <<sorted[1], sorted[3]>>

----------------------------------------------------------------------------
(* C7: a parsed boot-interval row appends a Boot event at its start        *)
(* unconditionally, and after it a Shutdown event at its end only if that  *)
(* end is more than one minute before the now read for the row.            *)
RowParsed == pc = "scan" /\ pc' = "scan" /\ events' # events

C7_BootRowEvents ==
    [][RowParsed =>
          /\ Len(events') > Len(events)
          /\ SubSeq(events', 1, Len(events)) = events
          /\ events'[Len(events) + 1] = Event(startTime', "boot")
          /\ IF now' - endTime' > OneMinute
             THEN /\ Len(events') = Len(events) + 2
                  /\ events'[Len(events) + 2] = Event(endTime', "shutdown")
             ELSE Len(events') = Len(events) + 1]_vars

\* a row that ended exactly one minute before now: a Boot and no Shutdown
C7_Witness ==
    /\ pc = "scan"
    /\ events = <<Event(startTime, "boot")>>
    /\ endTime > startTime
    /\ now - endTime = OneMinute

----------------------------------------------------------------------------
(* C8: anomaly transition.  A boot or resume event arriving while a        *)
(* session is open emits {start: openedAt, end: event.timestamp, label:    *)
(* openKind -> newKind}, and the machine is open again at the new event    *)
(* with the new event's kind.                                              *)
C8_AnomalyTransition ==
    [][(/\ Reconstructing
        /\ i <= Len(events)
        /\ IsOpener(events[i])
        /\ sessionStart # <<>>)
       => /\ sessions' = Append(sessions,
                [Start |-> sessionStart[1].Timestamp,
                 End |-> events[i].Timestamp,
                 Duration |-> events[i].Timestamp - sessionStart[1].Timestamp,
                 Type |-> Label(sessionStart[1].Type, events[i].Type)])
          /\ sessionStart' = <<events[i]>>
          /\ sessionType' = events[i].Type]_vars

\* [Boot, Resume] consumed: the anomaly session is out, the machine is open
\* at the resume
C8_Witness ==
    /\ Reconstructing
    /\ i = 3
    /\ events[1].Type = "boot" /\ events[2].Type = "resume"
    /\ events[1].Timestamp < events[2].Timestamp
    /\ sessions = <<[Start |-> events[1].Timestamp,
                     End |-> events[2].Timestamp,
                     Duration |-> events[2].Timestamp - events[1].Timestamp,
                     Type |-> "boot → resume"]>>
    /\ sessionStart = <<events[2]>>
    /\ sessionType = "resume"

----------------------------------------------------------------------------
(* C9: on return a final session {openedAt, now, openKind -> (still        *)
(* active)} exists if and only if the machine is still open, that is, the  *)
(* last opener of the stream is followed by no closer; every other         *)
(* session starts and ends at timestamps of input events.                  *)
EndsOpen(evs) ==
    \E k \in DOMAIN evs :
        /\ IsOpener(evs[k])
        /\ \A m \in (k + 1)..Len(evs) : ~IsCloser(evs[m])

LastOpener(evs) ==
    evs[CHOOSE k \in DOMAIN evs :
            IsOpener(evs[k]) /\ \A m \in (k + 1)..Len(evs) : ~IsOpener(evs[m])]

HasTail == sessions # <<>> /\ IsStillActive(sessions[Len(sessions)])

C9_StillActiveTail ==
    Reconstructed =>
        /\ HasTail <=> EndsOpen(events)
        /\ HasTail <=> sessionStart # <<>>
        /\ HasTail =>
              sessions[Len(sessions)] =
                 [Start |-> LastOpener(events).Timestamp,
                  End |-> now,
                  Duration |-> now - LastOpener(events).Timestamp,
                  Type |-> Label(LastOpener(events).Type, StillActive)]
        /\ \A k \in DOMAIN sessions :
              ~(HasTail /\ k = Len(sessions)) =>
                 /\ sessions[k].Start \in Timestamps(events)
                 /\ sessions[k].End \in Timestamps(events)
                 /\ ~IsStillActive(sessions[k])

\* a closed session, then an open tail ended at a now no event carries
C9_Witness ==
    /\ Reconstructed
    /\ Len(sessions) = 2
    /\ HasTail
    /\ now \notin Timestamps(events)

----------------------------------------------------------------------------
(* C10: fatal retrieval failure.  When the boot-list query fails,          *)
(* getSystemEvents returns no events, neither unit query is issued, no     *)
(* session is computed, and main prints the error and exits 1 with no      *)
(* session or summary output.                                              *)
BootListFailed == queries # <<>> /\ ~queries[1].ok

C10_FatalRetrievalFailure ==
    BootListFailed =>
        /\ pc = "exit"
        /\ exitCode = 1
        /\ events = <<>>
        /\ queries = <<Query("list-boots", FALSE)>>
        /\ sessions = <<>>
        /\ sessionStart = <<>>
        /\ output = <<"header", "error">>

C10_Witness == BootListFailed /\ pc = "exit"

----------------------------------------------------------------------------
(* C11: non-fatal retrieval failure.  A failed suspend or hibernate query  *)
(* adds no event, the other unit query is still issued and its events are  *)
(* appended, and the run goes on to normalize and reconstruct without      *)
(* printing an error or exiting 1.                                         *)
HasKind(evs, kind) == \E k \in DOMAIN evs : evs[k].Type = kind

SuspendFailed == Len(queries) >= 2 /\ ~queries[2].ok
HibernateFailed == Len(queries) >= 3 /\ ~queries[3].ok

NoErrorReported ==
    /\ exitCode # 1
    /\ \A k \in DOMAIN output : output[k] # "error"

C11_State ==
    /\ SuspendFailed =>
          /\ ~HasKind(events, "suspend")
          /\ pc # "suspend"
          /\ NoErrorReported
          /\ pc # "suspend_skipped" =>
                (Len(queries) = 3 /\ queries[3].cmd = "hibernate")
    /\ HibernateFailed =>
          /\ ~HasKind(events, "hibernate")
          /\ pc # "hibernate"
          /\ NoErrorReported
          /\ queries[2].cmd = "suspend"
    /\ (SuspendFailed /\ HibernateFailed) => ~HasKind(events, "resume")
    /\ ((SuspendFailed \/ HibernateFailed) /\ pc = "exit") =>
          /\ exitCode = 0
          /\ events # <<>> => i = Len(events) + 1

C11_Step ==
    /\ pc' \in {"suspend_skipped", "hibernate_skipped"} => events' = events
    /\ (pc = "suspend" /\ pc' = "suspend") =>
          SubSeq(events', 1, Len(events)) = events
    /\ (pc = "hibernate" /\ pc' = "hibernate") =>
          SubSeq(events', 1, Len(events)) = events

C11_NonFatalRetrievalFailure == []C11_State /\ [][C11_Step]_vars

\* the suspend query failed, the hibernate query gave an event, and the run
\* ended with sessions on the screen
C11_Witness ==
    /\ pc = "exit"
    /\ exitCode = 0
    /\ SuspendFailed
    /\ ~HibernateFailed
    /\ HasKind(events, "boot")
    /\ HasKind(events, "hibernate")
    /\ sessions # <<>>
    /\ summary # <<>>

----------------------------------------------------------------------------
(* C12: when no boot-interval row parses (no boot event is extracted),     *)
(* the event list is empty, main prints "No system events found." and      *)
(* calculateSessions is not run.                                           *)
Returned == pc = "exit" /\ exitCode = 0

NoEventsReported ==
    /\ events = <<>>
    /\ output = <<"header", "No system events found.">>
    /\ sessions = <<>>
    /\ i = 0
    /\ summary = <<>>

\* every parsed row appends a boot event; deduplicateEvents keeps the first
\* event of each kind, so no row parsed means no boot event
C12_ZeroRowsMeansNoEvents ==
    (Returned /\ ~HasKind(events, "boot")) => NoEventsReported

(* C12 as amended: when no boot-interval row parses and the unit queries  *)
(* contribute no event either, the event list is empty, main prints "No   *)
(* system events found." and calculateSessions is not run; and that       *)
(* report is printed only for an empty list.                              *)
UnitKinds == {"suspend", "hibernate", "resume"}

C12_NoRowsNoUnitEvents ==
    Returned =>
        /\ (~HasKind(events, "boot")
            /\ \A kind \in UnitKinds : ~HasKind(events, kind))
           => NoEventsReported
        /\ (\E k \in DOMAIN output : output[k] = "No system events found.")
           => events = <<>>

\* both unit queries answered, nothing parsed anywhere
C12_Witness ==
    /\ Returned
    /\ Len(queries) = 3
    /\ queries[2].ok /\ queries[3].ok
    /\ NoEventsReported

----------------------------------------------------------------------------
(* C13: a shutdown, suspend or hibernate event arriving while the machine  *)
(* is closed emits nothing and leaves the session list and the closed      *)
(* state unchanged; so the session list is empty exactly when the stream   *)
(* has no boot or resume event, and a non-empty stream of closers only is  *)
(* reported as "Cannot calculate work sessions.", exit 0.                  *)
C13_Step ==
    (/\ Reconstructing
     /\ i <= Len(events)
     /\ IsCloser(events[i])
     /\ sessionStart = <<>>)
    => /\ sessions' = sessions
       /\ sessionStart' = <<>>
       /\ sessionType' = sessionType
       /\ pc' = "calc"

C13_State ==
    Reconstructed =>
        /\ sessions = <<>> <=> OpenersOf(events) = <<>>
        /\ OpenersOf(events) = <<>> =>
              /\ output = <<"header", "Cannot calculate work sessions.">>
              /\ exitCode = 0
              /\ summary = <<>>

C13_CloserWhileClosed == []C13_State /\ [][C13_Step]_vars

C13_Witness ==
    /\ Reconstructed
    /\ Len(events) = 2
    /\ IsCloser(events[1]) /\ IsCloser(events[2])
    /\ sessions = <<>>
    /\ output = <<"header", "Cannot calculate work sessions.">>

----------------------------------------------------------------------------
(* C14: adjacency pairing.  A closer arriving while a session is open      *)
(* emits exactly one session from the most recent boot/resume before it to *)
(* the closer, labelled "<opener kind> -> <closer kind>", and closes the   *)
(* machine; a closer that directly follows a closer emits nothing.         *)
C14_Step ==
    (/\ Reconstructing
     /\ i <= Len(events)
     /\ IsCloser(events[i]))
    => /\ sessionStart # <<>> =>
             LET opener == LastOpener(SubSeq(events, 1, i - 1)) IN
                /\ OpenersOf(SubSeq(events, 1, i - 1)) # <<>>
                /\ sessions' = Append(sessions,
                       [Start |-> opener.Timestamp,
                        End |-> events[i].Timestamp,
                        Duration |-> events[i].Timestamp - opener.Timestamp,
                        Type |-> Label(opener.Type, events[i].Type)])
                /\ sessionStart' = <<>>
       /\ (i > 1 /\ IsCloser(events[i - 1])) => sessions' = sessions

C14_AdjacencyPairing == [][C14_Step]_vars

\* [opener, closer, closer] consumed: one session, the machine closed
C14_Witness ==
    /\ Reconstructing
    /\ i = 4
    /\ IsOpener(events[1]) /\ IsCloser(events[2]) /\ IsCloser(events[3])
    /\ sessions = <<[Start |-> events[1].Timestamp,
                     End |-> events[2].Timestamp,
                     Duration |-> events[2].Timestamp - events[1].Timestamp,
                     Type |-> Label(events[1].Type, events[2].Type)]>>
    /\ sessionStart = <<>>

----------------------------------------------------------------------------
(* C15: summary aggregation over a non-empty session list.  total is the   *)
(* sum of the durations, average is total divided by the count (integer    *)
(* division, truncated toward zero), longest is the first session of       *)
(* maximum duration and shortest the first session of minimum duration.    *)
RECURSIVE SumOfDurations(_)
SumOfDurations(ss) ==
    IF ss = <<>> THEN 0
    ELSE SumOfDurations(SubSeq(ss, 1, Len(ss) - 1)) + ss[Len(ss)].Duration

Abs(x) == IF x >= 0 THEN x ELSE -x

\* q is n divided into t, truncated toward zero
IsQuotient(q, t, n) ==
    /\ Abs(q) * n <= Abs(t)
    /\ Abs(t) < (Abs(q) + 1) * n
    /\ (q > 0 => t > 0) /\ (q < 0 => t < 0)

FirstWith(ss, dur) ==
    ss[CHOOSE k \in DOMAIN ss :
          /\ ss[k].Duration = dur
          /\ \A m \in 1..(k - 1) : ss[m].Duration # dur]

MaxDuration(ss) ==
    CHOOSE x \in { ss[k].Duration : k \in DOMAIN ss } :
        \A k \in DOMAIN ss : ss[k].Duration <= x

MinDuration(ss) ==
    CHOOSE x \in { ss[k].Duration : k \in DOMAIN ss } :
        \A k \in DOMAIN ss : ss[k].Duration >= x

C15_SummaryAggregation ==
    (Returned /\ sessions # <<>>) =>
        /\ Len(summary) = 1
        /\ summary[1].count = Len(sessions)
        /\ summary[1].totalDuration = SumOfDurations(sessions)
        /\ IsQuotient(summary[1].avgDuration, SumOfDurations(sessions),
                      Len(sessions))
        /\ summary[1].longest = FirstWith(sessions, MaxDuration(sessions))
        /\ summary[1].shortest = FirstWith(sessions, MinDuration(sessions))

\* three sessions, the last two tied for the longest: the earlier one wins
C15_Witness ==
    /\ Returned
    /\ Len(sessions) = 3
    /\ sessions[1].Duration < sessions[2].Duration
    /\ sessions[2].Duration = sessions[3].Duration
    /\ summary[1].longest = sessions[2]
    /\ summary[1].shortest = sessions[1]
    /\ summary[1].totalDuration > 0

----------------------------------------------------------------------------
(* C16: the sessions are in chronological order and never overlap: each    *)
(* session ends no later than the next one starts, and exactly when the    *)
(* next one starts if it was closed by the anomaly branch.  While the loop *)
(* runs the same holds between the last session and the open one.          *)
IsAnomaly(s) == s.Type \in { Label(o, n) : o \in Openers, n \in Openers }

\* the session starts in order, the open session included
Follows(s, nextStart) ==
    /\ s.End <= nextStart
    /\ s.Start <= nextStart
    /\ IsAnomaly(s) => s.End = nextStart

C16_ChronologicalSessions ==
    (Reconstructing \/ Reconstructed) =>
        /\ \A k \in 1..(Len(sessions) - 1) :
              Follows(sessions[k], sessions[k + 1].Start)
        /\ (Reconstructing /\ sessions # <<>> /\ sessionStart # <<>>) =>
              Follows(sessions[Len(sessions)], sessionStart[1].Timestamp)

\* an anomaly session met by its successor, and a gap after a closed one
C16_Witness ==
    /\ Reconstructed
    /\ Len(sessions) = 2
    /\ IsAnomaly(sessions[1])
    /\ sessions[1].Start < sessions[1].End
    /\ sessions[1].End = sessions[2].Start
    /\ sessions[2].Start < sessions[2].End

----------------------------------------------------------------------------
(* C17: tie-order determinism.  For the events extracted and a given now,  *)
(* the session list is the same whatever order the sort gives to events of *)
(* equal timestamp.                                                        *)
Extracted == pc \in {"hibernate", "hibernate_skipped"}

SessionLists(t) ==
    { calculateSessions(deduplicateEvents(s), t) : s \in SortSlice(events) }

C17_TieOrderDeterminism ==
    Extracted => \A t \in ClockReads : Cardinality(SessionLists(t)) <= 1

----------------------------------------------------------------------------
(* C18: deduplicateEvents returns an order-preserving subsequence of its   *)
(* input: nothing reordered, altered or invented, the empty list for the   *)
(* empty list, and a timestamp-sorted list for a timestamp-sorted input.   *)
RECURSIVE IsSubsequence(_, _)
IsSubsequence(a, b) ==
    IF a = <<>> THEN TRUE
    ELSE IF b = <<>> THEN FALSE
    ELSE IF Head(a) = Head(b) THEN IsSubsequence(Tail(a), Tail(b))
    ELSE IsSubsequence(a, Tail(b))

C18_DedupSubsequence ==
    pc = "returned" =>
        /\ IsSubsequence(events, sorted)
        /\ Len(events) <= Len(sorted)
        /\ sorted = <<>> => events = <<>>
        /\ sorted # <<>> => events # <<>>
        /\ IsSortedByTimestamp(sorted) => IsSortedByTimestamp(events)

\* one of three events dropped, the two retained of different kinds
C18_Witness ==
    /\ pc = "returned"
    /\ Len(sorted) = 3
    /\ Len(events) = 2
    /\ events[1].Type # events[2].Type
    /\ events[1].Timestamp < events[2].Timestamp

----------------------------------------------------------------------------
(* C19: formatDuration of S >= 0 whole seconds renders h = S div 3600,     *)
(* m = (S div 60) mod 60 and s = S mod 60, with h*3600 + m*60 + s = S:     *)
(* "<h>h <m>m <s>s" when h > 0, "<m>m <s>s" when h = 0 and m > 0, "<s>s"   *)
(* otherwise; 36000 seconds renders as "10h 0m 0s".                        *)
C19_FormatDuration ==
    (pc = "formatted" /\ d >= 0) =>
        LET h == d \div 3600
            m == (d \div 60) % 60
            sec == d % 60
        IN /\ h * 3600 + m * 60 + sec = d
           /\ h > 0 =>
                 rendered = ToString(h) \o "h " \o ToString(m) \o "m "
                               \o ToString(sec) \o "s"
           /\ (h = 0 /\ m > 0) =>
                 rendered = ToString(m) \o "m " \o ToString(sec) \o "s"
           /\ (h = 0 /\ m = 0) => rendered = ToString(sec) \o "s"
           /\ d = 36000 => rendered = "10h 0m 0s"

C19_Witness ==
    /\ pc = "formatted"
    /\ d = 36000
    /\ rendered = "10h 0m 0s"

====
